---- MODULE Spec2Model ----
(***************************************************************************)
(* The derivation pipeline of processors/: one raw conversation mapping is *)
(* normalized (normalize.py), given NTBA mark ids (derive_ids), and has    *)
(* its main path flagged (derive_paths.py).                                *)
(*                                                                         *)
(* Node ids are strings in the program; here they are integers whose order *)
(* is the string order of the ids.  Timestamps are positive integers.      *)
(***************************************************************************)
EXTENDS Integers, Sequences, FiniteSets, TLC

\* ---------------------------------------------------------------- bounds
MaxNodes == 4
MaxTime == 2
\* The conversations of one export file.
MaxConvos == 3
\* The nodes of a mapping whose references need not form a tree.
MaxWild == 3
\* The fragments of a text content and the characters of a fragment.
MaxParts == 2
MaxFrag == 2

\* ------------------------------------------------------- program values
\* Python None where an id is expected (parent, best_child).
NoId == -1
\* create_time absent (None, or no message at all).
NoTime == -1
\* create_time present but not numeric: float(ct) raises.
BadTime == -2
\* The literal mapping key "root".
RootKey == 0
\* 9e18, the time component of a sort key without a usable timestamp.
UnknownTime == 1000000

\* The numeric create_time values of the raw nodes, or none.
Times == {NoTime} \cup (1..MaxTime)

\* ------------------------------------------------------------- sequences
SeqToSet(s) == {s[i] : i \in 1..Len(s)}

RECURSIVE Reverse(_)
Reverse(s) == IF s = <<>> THEN <<>> ELSE Append(Reverse(Tail(s)), Head(s))

RECURSIVE SetToAscSeq(_)
SetToAscSeq(S) ==
    IF S = {} THEN <<>>
    ELSE LET m == CHOOSE x \in S : \A y \in S : x <= y
         IN <<m>> \o SetToAscSeq(S \ {m})

SetMax(S) == CHOOSE x \in S : \A y \in S : y <= x

IndexOf(s, x) == CHOOSE i \in 1..Len(s) : s[i] = x /\ \A j \in 1..(i-1) : s[j] # x

LastIndexOf(s, x) == CHOOSE i \in 1..Len(s) : s[i] = x /\ \A j \in (i+1)..Len(s) : s[j] # x

\* Mutant: the id component of the key is not compared, ties keep list order.
KeyLess_no_id(a, b) ==
    \/ a[1] < b[1]
    \/ a[1] = b[1] /\ a[2] < b[2]

\* Lexicographic order on the (int, float, str) tuples the sort keys are.
KeyLess(a, b) ==
    \/ a[1] < b[1]
    \/ a[1] = b[1] /\ a[2] < b[2]
    \/ a[1] = b[1] /\ a[2] = b[2] /\ a[3] < b[3]

\* Python's sorted() on a list of key tuples: a stable insertion of each key
\* after the keys that are not greater.
RECURSIVE SortKeys(_)
SortKeys(ks) ==
    IF ks = <<>> THEN <<>>
    ELSE LET rest == SortKeys(Tail(ks))
             x == Head(ks)
             k == Cardinality({i \in 1..Len(rest) : KeyLess(rest[i], x)})
         IN SubSeq(rest, 1, k) \o <<x>> \o SubSeq(rest, k + 1, Len(rest))

\* sorted(s, key=Key) where the last key component is the element itself.
SortedBy(s, Key(_)) ==
    LET sorted == SortKeys([i \in 1..Len(s) |-> Key(s[i])])
    IN [i \in 1..Len(s) |-> sorted[i][3]]

\* ------------------------------------------------------------ normalize.py
\* Mutant: a create_time that is not numeric counts as the time 0.0.
SortKeyOf_bad_as_zero(cts, cid) ==
    LET ct == IF cid \in DOMAIN cts THEN cts[cid] ELSE NoTime
    IN IF ct = NoTime THEN <<1, UnknownTime, cid>>
       ELSE IF ct = BadTime THEN <<0, 0, cid>>
       ELSE <<0, ct, cid>>

\* sort_key of normalize_mapping_tree: the child is looked up in norm; a
\* child that is no node has no message.
SortKeyOf(cts, cid) ==
    LET ct == IF cid \in DOMAIN cts THEN cts[cid] ELSE NoTime
    IN IF ct = NoTime THEN <<1, UnknownTime, cid>>
       ELSE IF ct = BadTime THEN <<1, UnknownTime, cid>>
       ELSE <<0, ct, cid>>

SortChildren(cts, kids) ==
    LET Key(c) == SortKeyOf(cts, c) IN SortedBy(kids, Key)

\* mapping: [keys: sequence of ids (dict order), node: id -> [parent, children, ct]]
normalize_mapping_tree(mapping) ==
    LET cts == [i \in DOMAIN mapping.node |-> mapping.node[i].ct]
    IN [keys |-> mapping.keys,
        node |-> [i \in DOMAIN mapping.node |->
                    [parent |-> mapping.node[i].parent,
                     children |-> SortChildren(cts, mapping.node[i].children),
                     ct |-> mapping.node[i].ct]]]

\* Mutant: the key "root" is the fallback, tried after the parentless nodes.
find_root_id_orphan_first(mapping) ==
    LET orphans == {i \in 1..Len(mapping.keys) :
                       mapping.node[mapping.keys[i]].parent = NoId}
    IN IF orphans # {}
       THEN mapping.keys[CHOOSE i \in orphans : \A j \in orphans : i <= j]
       ELSE IF RootKey \in DOMAIN mapping.node THEN RootKey
       ELSE mapping.keys[1]

find_root_id(mapping) ==
    IF RootKey \in DOMAIN mapping.node THEN RootKey
    ELSE LET orphans == {i \in 1..Len(mapping.keys) :
                            mapping.node[mapping.keys[i]].parent = NoId}
         IN IF orphans # {}
            THEN mapping.keys[CHOOSE i \in orphans : \A j \in orphans : i <= j]
            ELSE mapping.keys[1]

\* Mutant: the children lists are moved out of the input nodes, which are
\* left with none.
mapping_left_consumed(mapping) ==
    [mapping EXCEPT !.node =
        [i \in DOMAIN mapping.node |-> [mapping.node[i] EXCEPT !.children = <<>>]]]

\* The raw mapping as normalize_mapping_tree leaves it: the nodes are read
\* with get() and every children list is copied (list(children)) before it
\* is sorted, so nothing is written to the input.
mapping_left_by_normalize(mapping) == mapping

\* extract_node_fields: create_time is float(ct), None when absent or not numeric.
extract_node_fields(node) ==
    [parent |-> node.parent,
     children |-> node.children,
     ct |-> IF node.ct = BadTime THEN NoTime ELSE node.ct]

EmptyMapping == [keys |-> <<>>, node |-> <<>>]

normalize_conversation(mapping) ==
    IF mapping.keys = <<>>
    THEN [root_source_node_id |-> NoId, keys |-> <<>>, nodes |-> <<>>]
    ELSE LET nm == normalize_mapping_tree(mapping)
         IN [root_source_node_id |-> find_root_id(nm),
             keys |-> nm.keys,
             nodes |-> [i \in DOMAIN nm.node |-> extract_node_fields(nm.node[i])]]

\* ------------------------------------------------------------ derive_ids
\* key() of sort_children_by_time and of compute_T_labels, on normalized nodes.
TimeKeyOf(nodes, nid) ==
    LET ct == IF nid \in DOMAIN nodes THEN nodes[nid].ct ELSE NoTime
    IN IF ct = NoTime THEN <<1, UnknownTime, nid>>
       ELSE IF ct = BadTime THEN <<1, UnknownTime, nid>>
       ELSE <<0, ct, nid>>

sort_children_by_time(nodes, child_ids) ==
    LET Key(c) == TimeKeyOf(nodes, c) IN SortedBy(child_ids, Key)

\* parent -> [children], built from the parent pointers in dict order, each
\* list then sorted.
parent_to_children(keys, nodes) ==
    LET parents == {nodes[i].parent : i \in DOMAIN nodes} \ {NoId}
        HasParent(p) == LET Test(i) == nodes[i].parent = p IN SelectSeq(keys, Test)
    IN [p \in parents |-> sort_children_by_time(nodes, HasParent(p))]

\* Mutant: enumerate() without start=1.
compute_A_labels_zero_based(keys, nodes, root_id) ==
    LET ptc == parent_to_children(keys, nodes)
        labelled == {i \in DOMAIN nodes : nodes[i].parent # NoId} \ {root_id}
    IN [i \in labelled |->
          LET kids == ptc[nodes[i].parent] IN <<IndexOf(kids, i) - 1, Len(kids)>>]

\* The A labels: "A idx of total" is <<idx, total>>; the root's is deleted.
compute_A_labels(keys, nodes, root_id) ==
    LET ptc == parent_to_children(keys, nodes)
        labelled == {i \in DOMAIN nodes : nodes[i].parent # NoId} \ {root_id}
    IN [i \in labelled |->
          LET kids == ptc[nodes[i].parent] IN <<IndexOf(kids, i), Len(kids)>>]

\* The nodes as compute_A_labels leaves them: the stored child order rewritten.
nodes_after_A(keys, nodes) ==
    LET ptc == parent_to_children(keys, nodes)
    IN [i \in DOMAIN nodes |->
          IF i \in DOMAIN ptc THEN [nodes[i] EXCEPT !.children = ptc[i]] ELSE nodes[i]]

ChildrenOf(nodes, nid) == IF nid \in DOMAIN nodes THEN nodes[nid].children ELSE <<>>

\* The visits of dfs() in compute_B_labels, in order, as <<node, branch_count>>.
\* depth counts the frames left; <<NoId, 0>> marks a recursion that ran out.
RECURSIVE dfs_B(_, _, _, _), dfs_B_kids(_, _, _, _), dfs_B_inclusive(_, _, _, _)

\* Mutant: a branch point counts itself.
dfs_B_inclusive(nodes, node_id, branch_count, depth) ==
    IF depth = 0 THEN << <<NoId, 0>> >>
    ELSE LET kids == ChildrenOf(nodes, node_id)
             next_branch_count == branch_count + (IF Len(kids) > 1 THEN 1 ELSE 0)
         IN << <<node_id, next_branch_count>> >> \o dfs_B_kids(nodes, kids, next_branch_count, depth - 1)

dfs_B(nodes, node_id, branch_count, depth) ==
    IF depth = 0 THEN << <<NoId, 0>> >>
    ELSE LET kids == ChildrenOf(nodes, node_id)
             next_branch_count == branch_count + (IF Len(kids) > 1 THEN 1 ELSE 0)
         IN << <<node_id, branch_count>> >> \o dfs_B_kids(nodes, kids, next_branch_count, depth - 1)

dfs_B_kids(nodes, kids, bc, depth) ==
    IF kids = <<>> THEN <<>>
    ELSE dfs_B(nodes, Head(kids), bc, depth) \o dfs_B_kids(nodes, Tail(kids), bc, depth)

\* Python's recursion limit stands far above any depth a cycle-free mapping of
\* the model reaches; a walk deeper than every node and one missing child is
\* a walk on a cycle.
DepthLimit(nodes) == Cardinality(DOMAIN nodes) + 2

\* B[nid] is the count of the last visit.
compute_B_labels(nodes, root_id) ==
    LET visits == dfs_B(nodes, root_id, 0, DepthLimit(nodes))
        ids == [i \in 1..Len(visits) |-> visits[i][1]]
    IN [nid \in SeqToSet(ids) \ {NoId} |-> visits[LastIndexOf(ids, nid)][2]]

\* Mutant: a missing create_time sorts as -1, before every timestamp.
compute_T_labels_none_first(keys, nodes) ==
    LET Key(c) == <<0, nodes[c].ct, c>>
        ordered == SortedBy(keys, Key)
    IN [nid \in SeqToSet(keys) |-> IndexOf(ordered, nid)]

\* T: the 1-based rank of every key of nodes in the sorted order.
compute_T_labels(keys, nodes) ==
    LET Key(c) == TimeKeyOf(nodes, c)
        ordered == SortedBy(keys, Key)
    IN [nid \in SeqToSet(keys) |-> IndexOf(ordered, nid)]

\* The visits of dfs() in compute_N_labels, in order.
RECURSIVE dfs_N(_, _, _), dfs_N_kids(_, _, _)
dfs_N(nodes, nid, depth) ==
    IF depth = 0 THEN <<NoId>>
    ELSE <<nid>> \o dfs_N_kids(nodes, ChildrenOf(nodes, nid), depth - 1)
dfs_N_kids(nodes, kids, depth) ==
    IF kids = <<>> THEN <<>>
    ELSE dfs_N(nodes, Head(kids), depth) \o dfs_N_kids(nodes, Tail(kids), depth)

\* N[nid] is the counter at the last visit.
compute_N_labels(nodes, root_id) ==
    LET visits == dfs_N(nodes, root_id, DepthLimit(nodes))
    IN [nid \in SeqToSet(visits) \ {NoId} |-> LastIndexOf(visits, nid)]

\* RecursionError: the walk from the root never ends.
RecursionOverflow(nodes, root_id) ==
    NoId \in SeqToSet(dfs_N(nodes, root_id, DepthLimit(nodes)))

\* "N0012 T0015 B03 A 2 of 4" is <<12, 15, 3, <<2, 4>>>>; the zero padding and
\* the fixed separators make the string determine the four numbers.
NoA == <<0, 0>>

\* Mutant: the mark id is made of the B and A labels alone.
build_mark_id_BA(N, T, B, A) == <<0, 0, B, A>>

build_mark_id(N, T, B, A) == <<N, T, B, A>>

\* dict.get with a default.
Get(f, k, default) == IF k \in DOMAIN f THEN f[k] ELSE default

NoMark == <<>>
\* A derived label that is the empty string.
NoLabel == -1

EmptyTree == [root_node_id |-> NoMark, nodes |-> <<>>]

\* mark_of of apply_mark_ids.
mark_of_nodes(keys, nodes, root_source) ==
    LET after == nodes_after_A(keys, nodes)
        A == compute_A_labels(keys, nodes, root_source)
        B == compute_B_labels(after, root_source)
        T == compute_T_labels(keys, after)
        N == compute_N_labels(after, root_source)
    IN [s \in DOMAIN nodes |->
          build_mark_id(Get(N, s, 0), Get(T, s, 0), Get(B, s, 0), Get(A, s, NoA))]

\* A list with the elements outside S dropped.
KeepIn(s, S) == LET Test(x) == x \in S IN SelectSeq(s, Test)

\* Mutant: the node's own id is looked up in place of its parent's.
parent_mark_self(nodes, mark_of, s) ==
    IF nodes[s].parent = NoId THEN NoMark ELSE Get(mark_of, s, NoMark)

\* parent_mark = mark_of.get(parent_source) if parent_source else None
parent_mark(nodes, mark_of, s) ==
    IF nodes[s].parent = NoId THEN NoMark ELSE Get(mark_of, nodes[s].parent, NoMark)

\* children_mark = [mark_of[cid] for cid in children_source if cid in mark_of]
children_mark(nodes, mark_of, s) ==
    LET kept == KeepIn(nodes[s].children, DOMAIN mark_of)
    IN [i \in 1..Len(kept) |-> mark_of[kept[i]]]

apply_mark_ids(normalized) ==
    LET keys == normalized.keys
        nodes0 == normalized.nodes
        root_source == normalized.root_source_node_id
    IN IF root_source = NoId \/ root_source \notin DOMAIN nodes0
       THEN EmptyTree
       ELSE
         LET nodes == nodes_after_A(keys, nodes0)
             A == compute_A_labels(keys, nodes0, root_source)
             B == compute_B_labels(nodes, root_source)
             T == compute_T_labels(keys, nodes)
             N == compute_N_labels(nodes, root_source)
             mark_of == mark_of_nodes(keys, nodes0, root_source)
             marks == {mark_of[s] : s \in DOMAIN nodes}
             \* processed_nodes[mark_id] = ...: the last source node written
             \* under a key stays.
             writer(m) == keys[CHOOSE i \in 1..Len(keys) :
                                  /\ mark_of[keys[i]] = m
                                  /\ \A j \in (i+1)..Len(keys) : mark_of[keys[j]] # m]
         IN [root_node_id |-> mark_of[root_source],
             nodes |-> [m \in marks |->
                          LET s == writer(m)
                          IN [source_node_id |-> s,
                              parent |-> parent_mark(nodes, mark_of, s),
                              children |-> children_mark(nodes, mark_of, s),
                              ct |-> nodes[s].ct,
                              N |-> Get(N, s, NoLabel),
                              T |-> Get(T, s, NoLabel),
                              B |-> Get(B, s, NoLabel),
                              A |-> Get(A, s, NoA),
                              is_main_path |-> "unset"]]]

\* ---------------------------------------------------------- derive_paths.py
\* get_node_time: the message create_time, 0.0 when there is none.
get_node_time(nodes, nid) ==
    IF nid \notin DOMAIN nodes THEN 0
    ELSE IF nodes[nid].ct = NoTime THEN 0 ELSE nodes[nid].ct

Max(a, b) == IF a >= b THEN a ELSE b

\* (best_len, best_latest, best_child) of the best path starting at node_id.
\* for_kids is the loop over kids, best the triple it has so far.
RECURSIVE compute_best_path_from(_, _, _), for_kids(_, _, _, _, _)
RECURSIVE for_kids_earliest(_, _, _, _, _), for_kids_first(_, _, _, _, _)

compute_best_path_from(nodes, node_id, depth) ==
    LET kids == ChildrenOf(nodes, node_id)
    IN IF kids = <<>> \/ depth = 0
       THEN <<1, get_node_time(nodes, node_id), NoMark>>
       ELSE for_kids(nodes, node_id, kids, <<-1, -1, NoMark>>, depth - 1)

\* Mutant: the tie-break compares the wrong way round.
for_kids_earliest(nodes, node_id, kids, best, depth) ==
    IF kids = <<>> THEN best
    ELSE LET cid == Head(kids)
             child == compute_best_path_from(nodes, cid, depth)
             total_len == 1 + child[1]
             latest_here == Max(get_node_time(nodes, node_id), child[2])
             better == IF total_len > best[1] THEN <<total_len, latest_here, cid>>
                       ELSE IF total_len = best[1] /\ latest_here < best[2]
                            THEN <<best[1], latest_here, cid>>
                            ELSE best
         IN for_kids_earliest(nodes, node_id, Tail(kids), better, depth)

\* Mutant: no tie-break, the first child of the best length stays.
for_kids_first(nodes, node_id, kids, best, depth) ==
    IF kids = <<>> THEN best
    ELSE LET cid == Head(kids)
             child == compute_best_path_from(nodes, cid, depth)
             total_len == 1 + child[1]
             latest_here == Max(get_node_time(nodes, node_id), child[2])
             better == IF total_len > best[1] THEN <<total_len, latest_here, cid>>
                       ELSE best
         IN for_kids_first(nodes, node_id, Tail(kids), better, depth)

for_kids(nodes, node_id, kids, best, depth) ==
    IF kids = <<>> THEN best
    ELSE LET cid == Head(kids)
             child == compute_best_path_from(nodes, cid, depth)
             total_len == 1 + child[1]
             latest_here == Max(get_node_time(nodes, node_id), child[2])
             better == IF total_len > best[1] THEN <<total_len, latest_here, cid>>
                       ELSE IF total_len = best[1] /\ latest_here > best[2]
                            THEN <<best[1], latest_here, cid>>
                            ELSE best
         IN for_kids(nodes, node_id, Tail(kids), better, depth)

best_child_of(nodes, nid) == compute_best_path_from(nodes, nid, DepthLimit(nodes))[3]

\* derived["is_main_path"] is "unset" while the key is missing.
\* The nodes the while loop of mark_main_path visits, in order.
RECURSIVE main_walk(_, _, _)
main_walk(nodes, current, depth) ==
    LET best_child == best_child_of(nodes, current)
    IN IF best_child = NoMark \/ depth = 0 THEN <<current>>
       ELSE <<current>> \o main_walk(nodes, best_child, depth - 1)

\* Mutant: the walk goes on into every child that offers the best length.
RECURSIVE walk_all_longest(_, _, _)
walk_all_longest(nodes, current, depth) ==
    LET len_of(m) == compute_best_path_from(nodes, m, DepthLimit(nodes))[1]
        kids == SeqToSet(ChildrenOf(nodes, current))
    IN IF depth = 0 THEN {current}
       ELSE {current} \cup
            UNION {walk_all_longest(nodes, c, depth - 1) :
                     c \in {k \in kids : 1 + len_of(k) = len_of(current)}}

mark_main_path_ties(t) ==
    IF t.root_node_id = NoMark \/ t.root_node_id \notin DOMAIN t.nodes
    THEN t
    ELSE LET visited == walk_all_longest(t.nodes, t.root_node_id, DepthLimit(t.nodes))
         IN [t EXCEPT !.nodes =
               [m \in DOMAIN t.nodes |->
                  IF m \in visited THEN [t.nodes[m] EXCEPT !.is_main_path = "true"]
                  ELSE IF t.nodes[m].is_main_path = "unset"
                       THEN [t.nodes[m] EXCEPT !.is_main_path = "false"]
                       ELSE t.nodes[m]]]

\* Mutant: the best child is moved to the front of the children list of
\* every node on the path.
mark_main_path_main_first(t) ==
    IF t.root_node_id = NoMark \/ t.root_node_id \notin DOMAIN t.nodes
    THEN t
    ELSE LET visited == SeqToSet(main_walk(t.nodes, t.root_node_id, DepthLimit(t.nodes)))
             MainFirst(m) ==
                 LET b == best_child_of(t.nodes, m)
                     Other(c) == c # b
                 IN IF b = NoMark THEN t.nodes[m].children
                    ELSE <<b>> \o SelectSeq(t.nodes[m].children, Other)
         IN [t EXCEPT !.nodes =
               [m \in DOMAIN t.nodes |->
                  IF m \in visited
                  THEN [t.nodes[m] EXCEPT !.is_main_path = "true", !.children = MainFirst(m)]
                  ELSE IF t.nodes[m].is_main_path = "unset"
                       THEN [t.nodes[m] EXCEPT !.is_main_path = "false"]
                       ELSE t.nodes[m]]]

mark_main_path(t) ==
    IF t.root_node_id = NoMark \/ t.root_node_id \notin DOMAIN t.nodes
    THEN t
    ELSE LET visited == SeqToSet(main_walk(t.nodes, t.root_node_id, DepthLimit(t.nodes)))
         IN [t EXCEPT !.nodes =
               [m \in DOMAIN t.nodes |->
                  IF m \in visited THEN [t.nodes[m] EXCEPT !.is_main_path = "true"]
                  ELSE IF t.nodes[m].is_main_path = "unset"
                       THEN [t.nodes[m] EXCEPT !.is_main_path = "false"]
                       ELSE t.nodes[m]]]

\* ------------------------------------------------- processors/convert.py
\* Strings of the export (project id, project name, conversation id): None is
\* NoStr, "" is 0, a string of whitespace only is 1, and a text b >= 1 is 2b
\* as written and 2b + 1 with whitespace around it.  The order of the even
\* numbers is the string order of the texts.
NoStr == -1

\* str.strip()
strip(s) == IF s <= 1 THEN 0 ELSE 2 * (s \div 2)

\* isinstance(x, str) and x.strip()
HasText(s) == s # NoStr /\ strip(s) # 0

\* raw_convo["project"] when it is no dict.
NoProject == <<NoStr, NoStr>>
\* The project key None.
NoKey == -1
\* f"name:{...}" against f"id:{...}": every "name:" key is above every "id:"
\* key in string order.
NamePrefix == 100

\* _safe_float: None for None and for what float() rejects.
_safe_float(x) == IF x = NoTime \/ x = BadTime THEN NoTime ELSE x

_project_key_from_raw(raw_convo) ==
    LET pid == raw_convo.project[1]
        pname == raw_convo.project[2]
    IN IF HasText(pid) THEN strip(pid)
       ELSE IF HasText(pname) THEN NamePrefix + strip(pname)
       ELSE NoKey

_convo_time_from_raw(raw_convo) == _safe_float(raw_convo.create_time)

\* The sort key of a conversation; the fourth component is the place of the
\* conversation in the list that is sorted and takes no part in comparisons.
_order_key_time_then_id(raw_convo, place) ==
    LET ct == _convo_time_from_raw(raw_convo)
        cid == raw_convo.conversation_id
        cid_s == IF cid # NoStr THEN cid ELSE 0
    IN IF ct = NoTime THEN <<1, UnknownTime, cid_s, place>>
       ELSE <<0, ct, cid_s, place>>

\* sorted(convos, key=_order_key_time_then_id): stable, equal keys keep their
\* order.
sort_convos(convos) ==
    LET sorted == SortKeys([i \in 1..Len(convos) |-> _order_key_time_then_id(convos[i], i)])
    IN [i \in 1..Len(convos) |-> convos[sorted[i][4]]]

\* buckets.setdefault(pk, []).append(rc): the keys in order of first
\* appearance, and the conversations of a key in list order.
bucket_keys(raw_convos) ==
    LET pks == [i \in 1..Len(raw_convos) |-> _project_key_from_raw(raw_convos[i])]
        First(i) == \A j \in 1..(i-1) : pks[j] # pks[i]
        firsts == SetToAscSeq({i \in 1..Len(pks) : First(i)})
    IN [i \in 1..Len(firsts) |-> pks[firsts[i]]]

bucket_of(raw_convos, pk) ==
    LET Test(rc) == _project_key_from_raw(rc) = pk IN SelectSeq(raw_convos, Test)

bucket_min_time(bucket) ==
    LET times == {_convo_time_from_raw(bucket[i]) : i \in 1..Len(bucket)} \ {NoTime}
    IN IF times = {} THEN <<1, UnknownTime>>
       ELSE <<0, CHOOSE t \in times : \A u \in times : t <= u>>

\* Mutant: the buckets are numbered in the order their keys first appear.
project_keys_unsorted(raw_convos) ==
    LET IsProject(k) == k # NoKey
    IN SelectSeq(bucket_keys(raw_convos), IsProject)

project_keys_sorted(raw_convos) ==
    LET IsProject(k) == k # NoKey
        project_keys == SelectSeq(bucket_keys(raw_convos), IsProject)
        Key(k) == LET m == bucket_min_time(bucket_of(raw_convos, k))
                  IN <<m[1], m[2], k>>
    IN SortedBy(project_keys, Key)

\* P_label_of: "P0003" is 3.
P_label_of(raw_convos, pk) ==
    IF pk = NoKey THEN 0 ELSE IndexOf(project_keys_sorted(raw_convos), pk)

\* "P0001-C0002" is <<1, 2>>.
PC_label(p_label, c_label) == <<p_label, c_label>>

\* The (raw_convo, p_label, c_label) entries of one bucket.
labels_of_bucket(raw_convos, pk) ==
    LET convos_sorted == sort_convos(bucket_of(raw_convos, pk))
    IN [j \in 1..Len(convos_sorted) |->
          [rc |-> convos_sorted[j], P |-> P_label_of(raw_convos, pk), C |-> j]]

RECURSIVE labels_of_buckets(_, _)
labels_of_buckets(raw_convos, bucket_order) ==
    IF bucket_order = <<>> THEN <<>>
    ELSE labels_of_bucket(raw_convos, Head(bucket_order))
            \o labels_of_buckets(raw_convos, Tail(bucket_order))

\* Mutant: bucket_order without the non-project bucket.
assign_labels_projects_only(raw_convos) ==
    labels_of_buckets(raw_convos, project_keys_sorted(raw_convos))

\* Steps 1 to 3 of convert_file: ordered_with_labels.
assign_labels(raw_convos) ==
    labels_of_buckets(raw_convos, <<NoKey>> \o project_keys_sorted(raw_convos))

\* "unknown-id"
UnknownId == 98

\* float(t) if t is not None else None, for a conversation-level timestamp:
\* float() raises on a value that is not numeric.
float_raises(raw_convo) ==
    raw_convo.create_time = BadTime \/ raw_convo.update_time = BadTime

\* The conversation-level fields normalize_conversation returns.
convo_fields(raw_convo) ==
    [conversation_id |-> IF raw_convo.id \notin {NoStr, 0} THEN raw_convo.id
                         ELSE IF raw_convo.conversation_id \notin {NoStr, 0}
                              THEN raw_convo.conversation_id
                              ELSE UnknownId,
     create_time |-> raw_convo.create_time,
     update_time |-> raw_convo.update_time]

\* ------------------------------------------- paths.py, turns.py (mapping)
\* float("-inf")
NegInf == -1000000

\* children_of: the children list of a raw node, [] for an id that names none.
children_of(mapping, node_id) ==
    IF node_id \in DOMAIN mapping.node THEN mapping.node[node_id].children ELSE <<>>

\* get_timestamp: the create_time of the node's message, None without one.
get_timestamp(mapping, nid) ==
    IF nid \in DOMAIN mapping.node THEN mapping.node[nid].ct ELSE NoTime

_path_latest_timestamp(mapping, path) ==
    LET known == {get_timestamp(mapping, path[i]) : i \in 1..Len(path)} \ {NoTime}
    IN IF known = {} THEN NegInf ELSE SetMax(known)

\* The while loop of compute_main_path: the stack holds <<node, path>> pairs,
\* pop() takes the last; best is <<best_path, best_len, best_ts>>.
RECURSIVE main_path_loop(_, _, _)
main_path_loop(mapping, stack, best) ==
    IF stack = <<>> THEN best
    ELSE LET top == stack[Len(stack)]
             rest == SubSeq(stack, 1, Len(stack) - 1)
             path == top[2]
             kids == children_of(mapping, top[1])
         IN IF kids = <<>>
            THEN LET plen == Len(path)
                     pts == _path_latest_timestamp(mapping, path)
                 IN IF plen > best[2] \/ (plen = best[2] /\ pts > best[3])
                    THEN main_path_loop(mapping, rest, <<path, plen, pts>>)
                    ELSE main_path_loop(mapping, rest, best)
            ELSE main_path_loop(mapping,
                    rest \o [i \in 1..Len(kids) |-> <<kids[i], Append(path, kids[i])>>],
                    best)

compute_main_path(mapping) ==
    IF mapping.keys = <<>> THEN <<>>
    ELSE LET root == find_root_id(mapping)
         IN main_path_loop(mapping, << <<root, <<root>>>> >>,
                           <<<<root>>, 1, _path_latest_timestamp(mapping, <<root>>)>>)[1]

\* next_on_main_path: the entry after the first occurrence of current_id.
next_on_main_path(path, current_id) ==
    IF current_id \notin SeqToSet(path) THEN NoId
    ELSE LET i == IndexOf(path, current_id)
         IN IF i + 1 > Len(path) THEN NoId ELSE path[i + 1]

\* The role of the node's message author; a node without message, and an id
\* that names no node, has none.
RoleOf(mapping, nid) ==
    IF nid \in DOMAIN mapping.node THEN mapping.node[nid].role ELSE "none"

is_user_message(mapping, nid) == RoleOf(mapping, nid) = "user"
is_assistant_message(mapping, nid) == RoleOf(mapping, nid) = "assistant"

\* Mutant: the chosen reply stays among the alternates.
alternates_of_all(assistant_child_ids, main_assistant_id) == assistant_child_ids

\* alternates: the assistant children other than the chosen one.
alternates_of(assistant_child_ids, main_assistant_id) ==
    LET Other(cid) == cid # main_assistant_id IN SelectSeq(assistant_child_ids, Other)

\* The Turn built at a user node of the main path; a Message is the id of its
\* node.
turn_at(mapping, path, node_id) ==
    LET user_children == children_of(mapping, node_id)
        IsAssistant(cid) == is_assistant_message(mapping, cid)
        assistant_child_ids == SelectSeq(user_children, IsAssistant)
        nxt == next_on_main_path(path, node_id)
        main_assistant_id == IF nxt # NoId /\ nxt \in SeqToSet(assistant_child_ids)
                             THEN nxt ELSE NoId
    IN [user |-> node_id,
        assistant |-> main_assistant_id,
        alternates |-> alternates_of(assistant_child_ids, main_assistant_id)]

\* The for loop of build_turns_from_main_path over the entries from place i.
RECURSIVE turns_loop(_, _, _), turns_loop_stop(_, _, _)

\* Mutant: the walk ends at the first node that is neither user nor assistant.
turns_loop_stop(mapping, path, i) ==
    IF i > Len(path) THEN <<>>
    ELSE IF is_user_message(mapping, path[i])
         THEN <<turn_at(mapping, path, path[i])>> \o turns_loop_stop(mapping, path, i + 1)
         ELSE IF is_assistant_message(mapping, path[i])
              THEN turns_loop_stop(mapping, path, i + 1)
              ELSE <<>>

turns_loop(mapping, path, i) ==
    IF i > Len(path) THEN <<>>
    ELSE IF ~is_user_message(mapping, path[i])
         THEN turns_loop(mapping, path, i + 1)
         ELSE <<turn_at(mapping, path, path[i])>> \o turns_loop(mapping, path, i + 1)

build_turns_from_main_path(mapping, path) ==
    IF mapping.keys = <<>> \/ path = <<>> THEN <<>>
    ELSE turns_loop(mapping, path, 1)

\* ------------------------------------------------------------- content.py
\* A string is the sequence of its characters.  The characters of a fragment
\* are a letter, a blank and a newline; the name of a content kind and the
\* wording of a placeholder count as one character each.
Chars == {"a", " ", "\n"}
IsSpace(c) == c \in {" ", "\n"}

\* Python None where a string is expected (content_type).
None == <<"None">>

\* content: [none: content is None, content_type, parts_none: "parts" is
\* missing or None, parts: the list of fragments].
NoContent == [none |-> TRUE, content_type |-> None, parts_none |-> TRUE, parts |-> <<>>]

\* "\n".join(str(p) for p in parts)
RECURSIVE join_newline(_)
join_newline(parts) ==
    IF parts = <<>> THEN <<>>
    ELSE IF Len(parts) = 1 THEN parts[1]
    ELSE parts[1] \o <<"\n">> \o join_newline(Tail(parts))

RECURSIVE lstrip(_)
lstrip(s) == IF s # <<>> /\ IsSpace(Head(s)) THEN lstrip(Tail(s)) ELSE s

RECURSIVE rstrip(_)
rstrip(s) ==
    IF s # <<>> /\ IsSpace(s[Len(s)]) THEN rstrip(SubSeq(s, 1, Len(s) - 1)) ELSE s

\* Mutant: only the leading whitespace is removed.
str_strip_leading(s) == lstrip(s)

\* str.strip()
str_strip(s) == rstrip(lstrip(s))

\* Mutant: the placeholder names the kind only when it is not None.
placeholder_of_kind(content_type) ==
    <<"[">> \o (IF content_type = None THEN <<"unknown_content">> ELSE content_type) \o <<"]">>

\* f"[{content_type or 'unknown_content'}]"
placeholder(content_type) ==
    <<"[">> \o (IF content_type \in {None, <<>>} THEN <<"unknown_content">> ELSE content_type)
        \o <<"]">>

extract_text_from_content(c) ==
    IF c.none THEN <<"[", "no content", "]">>
    ELSE IF c.content_type = <<"text">>
         THEN str_strip(join_newline(IF c.parts_none THEN <<>> ELSE c.parts))
         ELSE placeholder(c.content_type)

\* ------------------------------------------------------------------ state
VARIABLES pc, raw, norm, tree
\* convert_file: the conversations of the input file, the labelled order and
\* the processed trees.
VARIABLES raw_convos, ordered_with_labels, processed
\* parse_conversation: the main path and the turns built along it.
VARIABLES main_path, turns
batch == <<raw_convos, ordered_with_labels, processed>>
parsed == <<main_path, turns>>
\* The output of an earlier run of the pipeline on the same input objects.
VARIABLES earlier
\* extract_text_from_content: the content it is given and the string returned.
VARIABLES content, text
others == <<earlier, content, text>>
vars == <<pc, raw, norm, tree, raw_convos, ordered_with_labels, processed, main_path, turns,
          earlier, content, text>>

\* No export file and no parsed conversation.
NoBatch ==
    /\ raw_convos = <<>>
    /\ ordered_with_labels = <<>>
    /\ processed = <<>>
NoParse ==
    /\ main_path = <<>>
    /\ turns = <<>>

\* No earlier run.
NoRun == [pc |-> "none", tree |-> <<>>, processed |-> <<>>]
\* No content handed over, nothing returned.
Nothing == <<"nothing">>
NoOthers ==
    /\ earlier = NoRun
    /\ content = Nothing
    /\ text = Nothing

\* The raw mappings: every tree of n nodes (a node's parent has a smaller id)
\* with every timestamp assignment, in one of these shapes: children lists
\* and keys in ascending or in descending id order, or ascending with one
\* dangling child reference, or ascending with one create_time that is not
\* numeric, or ascending with the root under the literal key "root".  The
\* ids are base+1..base+n; base is -1 when the root is the key "root".
Ghost(ids) == SetMax(ids) + 1

RawMapping(n, par, ct, rev, ghostAt, badAt, base) ==
    LET ids == {base + i : i \in 1..n}
        asc == SetToAscSeq(ids)
        kidsOf(i) == LET ks == SetToAscSeq({base + j : j \in {k \in 1..n : par[k] = i}})
                         ord == IF rev THEN Reverse(ks) ELSE ks
                     IN IF ghostAt = i THEN Append(ord, Ghost(ids)) ELSE ord
    IN [keys |-> IF rev THEN Reverse(asc) ELSE asc,
        node |-> [x \in ids |->
                    LET i == x - base
                    IN [parent |-> IF par[i] = NoId THEN NoId ELSE base + par[i],
                        children |-> kidsOf(i),
                        ct |-> IF badAt = i THEN BadTime ELSE ct[i]]]]

TreeParents(n) ==
    {p \in [1..n -> {NoId} \cup (1..n)] :
        \A i \in 1..n : IF i = 1 THEN p[i] = NoId ELSE p[i] \in 1..(i-1)}

Variants(n) ==
    {<<r, 0, 0, 0>> : r \in BOOLEAN}
        \cup {<<FALSE, i, 0, 0>> : i \in 1..n}
        \cup {<<FALSE, 0, i, 0>> : i \in 1..n}
        \cup {<<FALSE, 0, 0, RootKey - 1>>}

NoConversation == [root_source_node_id |-> NoId, keys |-> <<>>, nodes |-> <<>>]

Init ==
    /\ pc = "raw"
    /\ \/ raw = EmptyMapping
       \/ \E n \in 1..MaxNodes :
             \E par \in TreeParents(n), ct \in [1..n -> Times], v \in Variants(n) :
                raw = RawMapping(n, par, ct, v[1], v[2], v[3], v[4])
    /\ norm = NoConversation
    /\ tree = EmptyTree
    /\ NoBatch
    /\ NoParse
    /\ NoOthers

\* normalized = normalize_conversation(raw_convo)
Normalize ==
    /\ pc = "raw"
    /\ norm' = normalize_conversation(raw)
    /\ pc' = "normalized"
    /\ raw' = mapping_left_by_normalize(raw)
    /\ UNCHANGED tree
    /\ UNCHANGED <<batch, parsed, others>>

\* tree = apply_mark_ids(normalized); compute_A_labels rewrites the child
\* lists of the normalized nodes it is given.
ApplyMarkIds ==
    /\ pc = "normalized"
    /\ LET known == /\ norm.root_source_node_id # NoId
                     /\ norm.root_source_node_id \in DOMAIN norm.nodes
           after == nodes_after_A(norm.keys, norm.nodes)
       IN IF known /\ RecursionOverflow(after, norm.root_source_node_id)
          THEN /\ pc' = "raised"
               /\ norm' = [norm EXCEPT !.nodes = after]
               /\ UNCHANGED tree
          ELSE /\ pc' = "derived"
               /\ norm' = IF known THEN [norm EXCEPT !.nodes = after] ELSE norm
               /\ tree' = apply_mark_ids(norm)
    /\ UNCHANGED raw
    /\ UNCHANGED <<batch, parsed, others>>

\* tree = mark_main_path(tree)
MarkMainPath ==
    /\ pc = "derived"
    /\ tree' = mark_main_path(tree)
    /\ pc' = "marked"
    /\ UNCHANGED <<raw, norm>>
    /\ UNCHANGED <<batch, parsed, others>>

Next == Normalize \/ ApplyMarkIds \/ MarkMainPath

Spec == Init /\ [][Next]_vars

\* ------------------------------------------------- malformed mappings
\* The mappings of n nodes whose references are arbitrary: every parent field
\* is null, a node (the node itself too) or an id that names no node, and
\* every children list is any set of the nodes.  Self-loops, cycles, a child
\* under two parents, parent and children fields that disagree, and no node
\* without parent are all among them.  The ids are base+1..base+n; with base
\* -1 the first node has the key "root", whatever its parent field says.
WildMapping(n, par, kids, base) ==
    LET ids == {base + i : i \in 1..n}
    IN [keys |-> SetToAscSeq(ids),
        node |-> [x \in ids |->
                    LET i == x - base
                    IN [parent |-> IF par[i] = NoId THEN NoId ELSE base + par[i],
                        children |-> SetToAscSeq({base + j : j \in kids[i]}),
                        ct |-> NoTime]]]

InitWild ==
    /\ pc = "raw"
    /\ \E n \in 1..MaxWild :
          \E par \in [1..n -> {NoId} \cup (1..n) \cup {n + 1}], kids \in [1..n -> SUBSET (1..n)],
             base \in {0, RootKey - 1} :
             raw = WildMapping(n, par, kids, base)
    /\ norm = NoConversation
    /\ tree = EmptyTree
    /\ NoBatch
    /\ NoParse
    /\ NoOthers

SpecWild == InitWild /\ [][Next]_vars

\* ------------------------------------------- trees that carry flags already
\* A processed tree whose nodes carry is_main_path values from before the
\* call (a tree marked earlier and handed to mark_main_path again): every
\* tree of n nodes, every node's flag true, false or missing; the empty tree
\* (n = 0) and a tree whose root_node_id names none of its nodes too.
\* "N0000 T0000 B00 A 0 of 0", the mark of no node of a tree.
UnknownMark == <<0, 0, 0, <<0, 0>> >>

InitFlags ==
    /\ pc = "derived"
    /\ \E n \in 0..MaxNodes :
          \E par \in TreeParents(n), flags \in [1..n -> {"unset", "true", "false"}],
             lost \in BOOLEAN :
             /\ raw = RawMapping(n, par, [i \in 1..n |-> NoTime], FALSE, 0, 0, 0)
             /\ norm = normalize_conversation(raw)
             /\ tree = LET t == apply_mark_ids(norm)
                       IN [root_node_id |-> IF lost THEN UnknownMark ELSE t.root_node_id,
                           nodes |->
                             [m \in DOMAIN t.nodes |->
                                [t.nodes[m] EXCEPT !.is_main_path = flags[t.nodes[m].source_node_id]]]]
    /\ NoBatch
    /\ NoParse
    /\ NoOthers

NextFlags == MarkMainPath

SpecFlags == InitFlags /\ [][NextFlags]_vars

\* ------------------------------------------------- parse_conversation
Roles == {"user", "assistant", "system"}

\* A mapping whose nodes carry a message with an author role.
WithRoles(mapping, role) ==
    [mapping EXCEPT !.node =
        [x \in DOMAIN mapping.node |->
            [parent |-> mapping.node[x].parent,
             children |-> mapping.node[x].children,
             ct |-> mapping.node[x].ct,
             role |-> role[x]]]]

\* The raw mappings of parse_conversation: every tree of n nodes with every
\* assignment of roles and timestamps, children lists ascending or descending.
InitTurns ==
    /\ pc = "raw"
    /\ \E n \in 1..MaxNodes :
          \E par \in TreeParents(n), ct \in [1..n -> Times],
             role \in [1..n -> Roles], rev \in BOOLEAN :
             raw = WithRoles(RawMapping(n, par, ct, rev, 0, 0, 0), role)
    /\ norm = NoConversation
    /\ tree = EmptyTree
    /\ NoBatch
    /\ NoParse
    /\ NoOthers

\* main_path = compute_main_path(mapping)
ComputeMainPath ==
    /\ pc = "raw"
    /\ main_path' = compute_main_path(raw)
    /\ pc' = "path"
    /\ UNCHANGED <<raw, norm, tree, batch, turns, others>>

\* convo.turns = build_turns_from_main_path(mapping, main_path)
BuildTurns ==
    /\ pc = "path"
    /\ turns' = build_turns_from_main_path(raw, main_path)
    /\ pc' = "parsed"
    /\ UNCHANGED <<raw, norm, tree, batch, main_path, others>>

NextTurns == ComputeMainPath \/ BuildTurns

SpecTurns == InitTurns /\ [][NextTurns]_vars

\* ------------------------------------------------ the export file (convert.py)
\* The project descriptors: none, an id, a name, another id with that name.
ProjectChoices == {NoProject, <<2, NoStr>>, <<NoStr, 2>>, <<4, 2>>}

\* The fields that name the conversation: "id", "conversation_id", or both.
IdForms == {"both", "conversation_id", "id"}

\* The mapping of the k-th conversation: a chain of k nodes.
ChainMapping(k) ==
    RawMapping(k, [i \in 1..k |-> IF i = 1 THEN NoId ELSE i - 1],
               [i \in 1..k |-> NoTime], FALSE, 0, 0, 0)

\* A list of n conversations with distinct ids, ascending or descending along
\* the list, one of them at most with a create_time or update_time that is
\* not numeric, a project id of whitespace only, whitespace around its
\* project id, or a mapping that is absent or empty.
RawConvos(n, proj, ct, rev, form, badCt, badUt, blankAt, paddedAt, emptyAt) ==
    [i \in 1..n |->
        LET k == IF rev THEN n + 1 - i ELSE i
            pr == proj[i]
        IN [id |-> IF form \in {"both", "id"} THEN 2 * k ELSE NoStr,
            conversation_id |-> IF form \in {"both", "conversation_id"} THEN 2 * k ELSE NoStr,
            project |-> IF blankAt = i THEN <<1, pr[2]>>
                        ELSE IF paddedAt = i /\ HasText(pr[1]) THEN <<pr[1] + 1, pr[2]>>
                        ELSE pr,
            create_time |-> IF badCt = i THEN BadTime ELSE ct[i],
            update_time |-> IF badUt = i THEN BadTime ELSE NoTime,
            mapping |-> IF emptyAt = i THEN EmptyMapping ELSE ChainMapping(k)]]

ConvoVariants(n) ==
    {<<r, f, 0, 0, 0, 0, 0>> : r \in BOOLEAN, f \in IdForms}
        \cup {<<FALSE, "both", i, 0, 0, 0, 0>> : i \in 1..n}
        \cup {<<FALSE, "both", 0, i, 0, 0, 0>> : i \in 1..n}
        \cup {<<FALSE, "both", 0, 0, i, 0, 0>> : i \in 1..n}
        \cup {<<FALSE, "both", 0, 0, 0, i, 0>> : i \in 1..n}
        \cup {<<FALSE, "both", 0, 0, 0, 0, i>> : i \in 1..n}
        \cup {<<FALSE, "both", i, 0, 0, 0, i>> : i \in 1..n}

InitConvert ==
    /\ pc = "loaded"
    /\ \E n \in 0..MaxConvos :
          \E proj \in [1..n -> ProjectChoices], ct \in [1..n -> Times], v \in ConvoVariants(n) :
             raw_convos = RawConvos(n, proj, ct, v[1], v[2], v[3], v[4], v[5], v[6], v[7])
    /\ ordered_with_labels = <<>>
    /\ processed = <<>>
    /\ raw = EmptyMapping
    /\ norm = NoConversation
    /\ tree = EmptyTree
    /\ NoParse
    /\ NoOthers

\* Steps 1 to 3 of convert_file.
AssignLabels ==
    /\ pc = "loaded"
    /\ ordered_with_labels' = assign_labels(raw_convos)
    /\ pc' = "labelled"
    /\ UNCHANGED <<raw, norm, tree, raw_convos, processed, parsed, others>>

\* One turn of the loop of step 4: the pipeline on the next conversation, its
\* labels attached to the tree.  A float() that raises ends convert_file.
ProcessConversation ==
    /\ pc = "labelled"
    /\ Len(processed) < Len(ordered_with_labels)
    /\ LET item == ordered_with_labels[Len(processed) + 1]
           raw_convo == item.rc
           normalized == normalize_conversation(raw_convo.mapping)
           known == /\ normalized.root_source_node_id # NoId
                    /\ normalized.root_source_node_id \in DOMAIN normalized.nodes
           after == nodes_after_A(normalized.keys, normalized.nodes)
       IN /\ raw' = raw_convo.mapping
          /\ IF float_raises(raw_convo)
                \/ (known /\ RecursionOverflow(after, normalized.root_source_node_id))
             THEN /\ pc' = "raised"
                  /\ UNCHANGED <<norm, tree, processed>>
             ELSE /\ norm' = IF known THEN [normalized EXCEPT !.nodes = after] ELSE normalized
                  /\ tree' = mark_main_path(apply_mark_ids(normalized))
                  /\ processed' = Append(processed,
                        [tree |-> tree',
                         conversation |-> convo_fields(raw_convo),
                         P |-> item.P,
                         C |-> item.C,
                         PC |-> PC_label(item.P, item.C)])
                  /\ pc' = "labelled"
    /\ raw_convos' =
          LET raw_convo == ordered_with_labels[Len(processed) + 1].rc
          IN [i \in 1..Len(raw_convos) |->
                IF raw_convos[i] = raw_convo
                THEN [raw_convo EXCEPT !.mapping = mapping_left_by_normalize(@)]
                ELSE raw_convos[i]]
    /\ UNCHANGED <<ordered_with_labels, parsed, others>>

\* return processed
ReturnProcessed ==
    /\ pc = "labelled"
    /\ Len(processed) = Len(ordered_with_labels)
    /\ pc' = "done"
    /\ UNCHANGED <<raw, norm, tree, batch, parsed, others>>

NextConvert == AssignLabels \/ ProcessConversation \/ ReturnProcessed

SpecConvert == InitConvert /\ [][NextConvert]_vars

\* --------------------------------------------------- the content extractor
RECURSIVE StringsUpTo(_)
StringsUpTo(n) ==
    IF n = 0 THEN {<<>>}
    ELSE LET shorter == StringsUpTo(n - 1)
         IN shorter \cup {Append(f, ch) : f \in shorter, ch \in Chars}

RECURSIVE ListsUpTo(_, _)
ListsUpTo(n, S) ==
    IF n = 0 THEN {<<>>}
    ELSE LET shorter == ListsUpTo(n - 1, S)
         IN shorter \cup {Append(l, x) : l \in shorter, x \in S}

\* The kinds: none declared, the empty string, text, and one other.
Kinds == {None, <<>>, <<"text">>, <<"image">>}

\* The payloads: None; every kind without "parts"; every kind with a list of
\* up to MaxParts fragments of up to MaxFrag characters.
Contents ==
    {NoContent}
        \cup {[none |-> FALSE, content_type |-> k, parts_none |-> TRUE, parts |-> <<>>] :
                k \in Kinds}
        \cup {[none |-> FALSE, content_type |-> k, parts_none |-> FALSE, parts |-> l] :
                k \in Kinds, l \in ListsUpTo(MaxParts, StringsUpTo(MaxFrag))}

InitContent ==
    /\ pc = "content"
    /\ content \in Contents
    /\ text = Nothing
    /\ raw = EmptyMapping
    /\ norm = NoConversation
    /\ tree = EmptyTree
    /\ NoBatch
    /\ NoParse
    /\ earlier = NoRun

\* text = extract_text_from_content(content)
ExtractText ==
    /\ pc = "content"
    /\ text' = extract_text_from_content(content)
    /\ pc' = "extracted"
    /\ UNCHANGED <<raw, norm, tree, batch, parsed, earlier, content>>

NextContent == ExtractText

SpecContent == InitContent /\ [][NextContent]_vars

\* ------------------------------------------------------ the pipeline twice
\* The pipeline is run again on the input objects the first run was given,
\* as that run left them; the first output is kept aside.
RunAgain ==
    /\ earlier = NoRun
    /\ pc \in {"marked", "done"}
    /\ earlier' = [pc |-> pc, tree |-> tree, processed |-> processed]
    /\ pc' = IF pc = "marked" THEN "raw" ELSE "loaded"
    /\ raw' = IF pc = "marked" THEN raw ELSE EmptyMapping
    /\ norm' = NoConversation
    /\ tree' = EmptyTree
    /\ ordered_with_labels' = <<>>
    /\ processed' = <<>>
    /\ UNCHANGED <<raw_convos, parsed, content, text>>

InitTwice == Init \/ InitConvert

NextTwice == Next \/ NextConvert \/ RunAgain

SpecTwice == InitTwice /\ [][NextTwice]_vars

\* ----------------------------------------------------------- properties
P == tree.nodes
Marks == DOMAIN tree.nodes
Root == tree.root_node_id
Derived == pc \in {"derived", "marked"}
Marked == pc = "marked"

Kids(m) == SeqToSet(P[m].children)
Flagged == {m \in Marks : P[m].is_main_path = "true"}
FlaggedKids(m) == Kids(m) \cap Flagged

\* The timestamp of a processed node, an absent one counting as 0.
TimeOf(m) == IF P[m].ct = NoTime THEN 0 ELSE P[m].ct

\* The root-to-leaf paths below m, by the children lists of the processed tree.
RECURSIVE PathsFrom(_, _)
PathsFrom(m, depth) ==
    IF Kids(m) \cap Marks = {} \/ depth = 0 THEN {<<m>>}
    ELSE UNION {{<<m>> \o q : q \in PathsFrom(c, depth - 1)} : c \in Kids(m) \cap Marks}

AllPaths == PathsFrom(Root, Cardinality(Marks))
PathLatest(q) == SetMax({TimeOf(q[i]) : i \in 1..Len(q)})

C2_LongestThenLatest ==
    (Marked /\ Marks # {}) =>
        \E q \in AllPaths :
            /\ SeqToSet(q) = Flagged
            /\ \A r \in AllPaths :
                  /\ Len(r) <= Len(q)
                  /\ Len(r) = Len(q) => PathLatest(r) <= PathLatest(q)

\* Two longest paths of three nodes whose latest timestamps differ, the
\* earlier one through the first child.
C2_Witness ==
    /\ Marked
    /\ Marks # {}
    /\ \E r1 \in AllPaths, r2 \in AllPaths :
          /\ Len(r1) = 3
          /\ Len(r2) = 3
          /\ PathLatest(r1) < PathLatest(r2)
          /\ SeqToSet(r2) = Flagged

\* A shorter path that holds the latest timestamp of the tree loses to a
\* longer one.
C2_WitnessLonger ==
    /\ Marked
    /\ Marks # {}
    /\ \E r1 \in AllPaths, r2 \in AllPaths :
          /\ Len(r1) < Len(r2)
          /\ PathLatest(r1) > PathLatest(r2)
          /\ SeqToSet(r2) = Flagged

\* The nodes of the subtree of m.
Subtree(m) == UNION {SeqToSet(q) : q \in PathsFrom(m, Cardinality(Marks))}
\* The node count of the longest path from m down to a leaf.
Height(m) == SetMax({Len(q) : q \in PathsFrom(m, Cardinality(Marks))})
Known(m) == P[m].ct # NoTime
IsLeaf(m) == Kids(m) = {}

\* Sibling subtrees c1, c2 of p with best paths of equal length, and a leaf l
\* of c2's subtree that is strictly later than every timestamp under c1.
C3_Case(p, c1, c2, l) ==
    /\ c1 \in Kids(p) /\ c2 \in Kids(p) /\ c1 # c2
    /\ Height(c1) = Height(c2)
    /\ l \in Subtree(c2) /\ IsLeaf(l) /\ Known(l)
    /\ \A x \in Subtree(c1) : Known(x) => P[l].ct > P[x].ct

EndsLongestPath(c2, l) ==
    \E q \in PathsFrom(c2, Cardinality(Marks)) : Len(q) = Height(c2) /\ q[Len(q)] = l

Count(q, x) == Cardinality({i \in 1..Len(q) : q[i] = x})
Src(m) == P[m].source_node_id

\* C4: distinct source nodes get distinct mark ids: the processed tree has as
\* many nodes as the normalized one and every source node is in it.
C4_MarkIdsDistinct ==
    Derived =>
        /\ Cardinality(Marks) = Cardinality(DOMAIN norm.nodes)
        /\ {Src(m) : m \in Marks} = DOMAIN norm.nodes

\* Two nodes of a processed tree that share their B and A labels.
C4_Witness ==
    /\ Derived
    /\ \E m1 \in Marks, m2 \in Marks :
          /\ m1 # m2
          /\ P[m1].B = P[m2].B
          /\ P[m1].A = P[m2].A

\* The chain of parent fields from m reaches the root.
RECURSIVE ReachesRoot(_, _)
ReachesRoot(m, depth) ==
    IF m = Root THEN TRUE
    ELSE IF depth = 0 \/ m \notin Marks THEN FALSE
    ELSE ReachesRoot(P[m].parent, depth - 1)

RECURSIVE PreorderFrom(_, _), PreorderOfKids(_, _)
PreorderFrom(m, depth) ==
    IF depth = 0 \/ m \notin Marks THEN <<>>
    ELSE <<m>> \o PreorderOfKids(P[m].children, depth - 1)
PreorderOfKids(kids, depth) ==
    IF kids = <<>> THEN <<>>
    ELSE PreorderFrom(Head(kids), depth) \o PreorderOfKids(Tail(kids), depth)

Preorder == PreorderFrom(Root, Cardinality(Marks))

\* C6: N is the 1-based position of the node in the depth-first pre-order of
\* the processed tree; the root has N = 1.
C6_NIsPreorderPosition ==
    (Derived /\ Marks # {}) =>
        /\ P[Root].N = 1
        /\ \A m \in Marks : Count(Preorder, m) = 1 /\ P[m].N = IndexOf(Preorder, m)

\* The order of two nodes by (known timestamp first, timestamp, source id).
RankedBefore(m1, m2) ==
    \/ Known(m1) /\ ~Known(m2)
    \/ Known(m1) /\ Known(m2) /\ P[m1].ct < P[m2].ct
    \/ Known(m1) /\ Known(m2) /\ P[m1].ct = P[m2].ct /\ Src(m1) < Src(m2)
    \/ ~Known(m1) /\ ~Known(m2) /\ Src(m1) < Src(m2)

\* C7: the T labels are exactly 1..n, no two nodes share one, and they rank
\* the nodes by (known timestamp first, timestamp ascending, source id
\* ascending).
C7_TIsRank ==
    Derived =>
        /\ {P[m].T : m \in Marks} = 1..Cardinality(Marks)
        /\ \A m1 \in Marks, m2 \in Marks :
              /\ m1 # m2 => P[m1].T # P[m2].T
              /\ RankedBefore(m1, m2) => P[m1].T < P[m2].T

\* A node without timestamp that has a smaller id than a node with one, and
\* two nodes with the same timestamp.
C7_Witness ==
    /\ Derived
    /\ \E m1 \in Marks, m2 \in Marks : ~Known(m1) /\ Known(m2) /\ Src(m1) < Src(m2)
    /\ \E m1 \in Marks, m2 \in Marks : m1 # m2 /\ Known(m1) /\ P[m1].ct = P[m2].ct

\* C8: child i of a children list of k entries carries "A i of k"; the root
\* carries no A label.
C8_SiblingRanks ==
    (Derived /\ Marks # {}) =>
        /\ P[Root].A = NoA
        /\ \A m \in Marks : \A i \in 1..Len(P[m].children) :
              /\ P[m].children[i] \in Marks
              /\ P[P[m].children[i]].A = <<i, Len(P[m].children)>>

\* A sibling group of two or more beside an only child, the group listed in
\* another order in the raw mapping.
C8_Witness ==
    /\ Derived
    /\ \E m \in Marks : Len(P[m].children) >= 2
    /\ \E m \in Marks : Len(P[m].children) = 1 /\ P[P[m].children[1]].A = <<1, 1>>
    /\ \E i \in DOMAIN raw.node :
          Len(raw.node[i].children) >= 2 /\ raw.node[i].children # norm.nodes[i].children

\* The proper ancestors of m, by the parent fields.
RECURSIVE Ancestors(_, _)
Ancestors(m, depth) ==
    IF depth = 0 \/ m \notin Marks THEN {}
    ELSE IF P[m].parent = NoMark THEN {}
    ELSE {P[m].parent} \cup Ancestors(P[m].parent, depth - 1)

IsBranchPoint(m) == Len(P[m].children) > 1

\* C9: B of the root is 0; B of another node is the number of its proper
\* ancestors with more than one child, which is B of its parent plus one when
\* the parent is a branch point and B of its parent otherwise.
C9_BranchDepth ==
    (Derived /\ Marks # {}) =>
        /\ P[Root].B = 0
        /\ \A m \in Marks \ {Root} :
              /\ P[m].B = Cardinality({a \in Ancestors(m, Cardinality(Marks)) : IsBranchPoint(a)})
              /\ P[m].parent \in Marks
              /\ P[m].B = P[P[m].parent].B + (IF IsBranchPoint(P[m].parent) THEN 1 ELSE 0)

\* A node below a branch point whose own parent is no branch point.
C9_Witness ==
    /\ Derived
    /\ \E m \in Marks \ {Root} :
          /\ P[m].B = 1
          /\ P[m].parent # Root
          /\ ~IsBranchPoint(P[m].parent)

\* A raw child with a usable timestamp: it names a node whose create_time is
\* there and numeric.
RawKnown(c) == c \in DOMAIN raw.node /\ raw.node[c].ct \notin {NoTime, BadTime}

ChildBefore(x, y) ==
    \/ RawKnown(x) /\ ~RawKnown(y)
    \/ RawKnown(x) /\ RawKnown(y) /\ raw.node[x].ct < raw.node[y].ct
    \/ RawKnown(x) /\ RawKnown(y) /\ raw.node[x].ct = raw.node[y].ct /\ x < y
    \/ ~RawKnown(x) /\ ~RawKnown(y) /\ x < y

\* C10: after normalization every child list holds the child ids of the raw
\* list and is sorted by (known timestamp first, timestamp ascending, child id
\* ascending), a missing or not numeric timestamp counting as unknown.
C10_ChildrenSorted ==
    pc = "normalized" =>
        /\ DOMAIN norm.nodes = DOMAIN raw.node
        /\ \A i \in DOMAIN raw.node :
              LET k == norm.nodes[i].children
                  r == raw.node[i].children
              IN /\ Len(k) = Len(r)
                 /\ \A x \in SeqToSet(r) \cup SeqToSet(k) : Count(k, x) = Count(r, x)
                 /\ \A a \in 1..Len(k), b \in 1..Len(k) : a < b => ChildBefore(k[a], k[b])

\* A child list the sort reorders, with a child whose create_time is not
\* numeric.
C10_Witness ==
    /\ pc = "normalized"
    /\ \E i \in DOMAIN raw.node :
          /\ raw.node[i].children # norm.nodes[i].children
          /\ \E c \in SeqToSet(raw.node[i].children) :
                c \in DOMAIN raw.node /\ raw.node[c].ct = BadTime

\* The rearrangements of a list.
PermsOf(s) == {[i \in 1..Len(s) |-> s[p[i]]] : p \in Permutations(1..Len(s))}

\* The raw mappings that differ from raw only in the order of the children
\* list of node i.
Reordered(i) ==
    {[raw EXCEPT !.node[i].children = k] : k \in PermsOf(raw.node[i].children)}

\* A mapping as the dict normalize_mapping_tree returns.
NormalizedRaw == normalize_mapping_tree(raw)

\* C11: a raw mapping that differs from the given one only in the order of a
\* children list normalizes to the same child lists, and normalizing the
\* normalized mapping again returns it unchanged.
C11_OrderIndependent ==
    pc = "normalized" =>
        /\ \A i \in DOMAIN raw.node : \A m \in Reordered(i) :
              /\ normalize_mapping_tree(m) = NormalizedRaw
              /\ \A j \in DOMAIN raw.node :
                    normalize_conversation(m).nodes[j].children = norm.nodes[j].children
        /\ normalize_mapping_tree(NormalizedRaw) = NormalizedRaw
        /\ \A j \in DOMAIN raw.node :
              normalize_mapping_tree([keys |-> norm.keys, node |-> norm.nodes]).node[j].children
                  = norm.nodes[j].children

\* A children list of three with two children that share a timestamp, given
\* in an order the normalization changes.
C11_Witness ==
    /\ pc = "normalized"
    /\ \E i \in DOMAIN raw.node :
          /\ Len(raw.node[i].children) >= 3
          /\ raw.node[i].children # norm.nodes[i].children
          /\ \E a \in SeqToSet(raw.node[i].children), b \in SeqToSet(raw.node[i].children) :
                a # b /\ RawKnown(a) /\ RawKnown(b) /\ raw.node[a].ct = raw.node[b].ct

\* ------------------------------------------------- properties of the labels
Labelled == pc \in {"labelled", "done", "raised"}
Entries == {ordered_with_labels[i] : i \in 1..Len(ordered_with_labels)}

\* The project of a conversation as the export states it: its id when that
\* has text, else its name when that has text, else none.  Surrounding
\* whitespace is no part of either.
ProjKind(rc) ==
    IF HasText(rc.project[1]) THEN "id"
    ELSE IF HasText(rc.project[2]) THEN "name"
    ELSE "none"
ProjText(rc) ==
    IF ProjKind(rc) = "id" THEN strip(rc.project[1])
    ELSE IF ProjKind(rc) = "name" THEN strip(rc.project[2])
    ELSE 0
SameBucket(a, b) == ProjKind(a) = ProjKind(b) /\ ProjText(a) = ProjText(b)

\* The creation time of a conversation is known when it is there and numeric.
ConvoKnown(rc) == rc.create_time \notin {NoTime, BadTime}
BucketTimes(rc) ==
    {raw_convos[i].create_time : i \in {j \in 1..Len(raw_convos) :
        SameBucket(raw_convos[j], rc) /\ ConvoKnown(raw_convos[j])}}
Earliest(rc) == CHOOSE t \in BucketTimes(rc) : \A u \in BucketTimes(rc) : t <= u

\* The project key strings "id:<text>" and "name:<text>" in string order.
ProjKeyBefore(a, b) ==
    \/ ProjKind(a) = "id" /\ ProjKind(b) = "name"
    \/ ProjKind(a) = ProjKind(b) /\ ProjText(a) < ProjText(b)

\* The bucket of a stands before the bucket of b.
BucketBefore(a, b) ==
    LET ka == BucketTimes(a) # {}
        kb == BucketTimes(b) # {}
    IN \/ ka /\ ~kb
       \/ ka /\ kb /\ Earliest(a) < Earliest(b)
       \/ ka /\ kb /\ Earliest(a) = Earliest(b) /\ ProjKeyBefore(a, b)
       \/ ~ka /\ ~kb /\ ProjKeyBefore(a, b)

ConvoId(rc) == IF rc.id # NoStr THEN rc.id ELSE rc.conversation_id

\* The order of two conversations of one bucket by (known creation time
\* first, creation time, conversation id).
ConvoBefore(a, b) ==
    \/ ConvoKnown(a) /\ ~ConvoKnown(b)
    \/ ConvoKnown(a) /\ ConvoKnown(b) /\ a.create_time < b.create_time
    \/ ConvoKnown(a) /\ ConvoKnown(b) /\ a.create_time = b.create_time /\ ConvoId(a) < ConvoId(b)
    \/ ~ConvoKnown(a) /\ ~ConvoKnown(b) /\ ConvoId(a) < ConvoId(b)

\* C13: the conversations of a bucket get C0001, C0002, ... without gaps in
\* the order (known creation time first, creation time, conversation id),
\* and PC is the P label and the C label joined.
C13_ConversationLabels ==
    Labelled =>
        /\ \A e \in Entries :
              {f.C : f \in {g \in Entries : g.P = e.P}}
                  = 1..Cardinality({g \in Entries : g.P = e.P})
        /\ \A e1 \in Entries, e2 \in Entries :
              (e1.P = e2.P /\ ConvoBefore(e1.rc, e2.rc)) => e1.C < e2.C
        /\ \A i \in 1..Len(processed) :
              /\ processed[i].P = ordered_with_labels[i].P
              /\ processed[i].C = ordered_with_labels[i].C
              /\ processed[i].PC = <<processed[i].P, processed[i].C>>

\* The entries of the labelled order of a list of conversations.
EntriesOf(convos) ==
    LET owl == assign_labels(convos) IN {owl[i] : i \in 1..Len(owl)}

\* C14: every rearrangement of the input list gives every conversation the
\* labels it has now.
C14_PermutationInvariant ==
    pc = "labelled" =>
        \A q \in PermsOf(raw_convos) : EntriesOf(q) = Entries

\* The normalized conversation as apply_mark_ids receives it.
Normalized0 == normalize_conversation(raw)
\* The mark id of a source node.
MarkOfSource(s) == CHOOSE m \in Marks : Src(m) = s

\* C15: the processed tree is the normalized tree with every id replaced by
\* its mark id: each node keeps its source id, its parent is the mark id of
\* its normalized parent (none when it names no node), and its children are
\* the normalized children in their order, those that name no node dropped.
C15_ShapePreserved ==
    (Derived /\ Marks # {}) =>
        /\ {Src(m) : m \in Marks} = DOMAIN Normalized0.nodes
        /\ \A m \in Marks :
              LET n == Normalized0.nodes[Src(m)]
                  kept == KeepIn(n.children, DOMAIN Normalized0.nodes)
              IN /\ P[m].parent = IF n.parent \in DOMAIN Normalized0.nodes
                                   THEN MarkOfSource(n.parent) ELSE NoMark
                 /\ Len(P[m].children) = Len(kept)
                 /\ \A i \in 1..Len(kept) :
                       /\ P[m].children[i] \in Marks
                       /\ Src(P[m].children[i]) = kept[i]


\* The processed tree is structurally valid: it is empty, or its root is a
\* node and every parent field and every child entry names a node.
StructurallyValid ==
    \/ Root = NoMark /\ Marks = {}
    \/ /\ Root \in Marks
       /\ \A m \in Marks :
             /\ P[m].parent = NoMark \/ P[m].parent \in Marks
             /\ Kids(m) \subseteq Marks
             /\ P[m].is_main_path \in {"true", "false"}

\* C19: on every mapping, however its parent and children references are
\* set, no stage of the pipeline fails and the tree it returns is
\* structurally valid.
C19_PipelineTerminates ==
    /\ pc # "raised"
    /\ Marked => StructurallyValid

\* The nodes met by following the winning child from the root down to a leaf.
WinningWalk == SeqToSet(main_walk(P, Root, Cardinality(Marks) + 2))

\* C16: after mark_main_path every node carries a flag, true on exactly the
\* nodes of the walk along the winning children and false on all others,
\* whatever the flags were before.
C16_FlagsExact ==
    (Marked /\ Marks # {}) =>
        \A m \in Marks :
            /\ P[m].is_main_path \in {"true", "false"}
            /\ P[m].is_main_path = "true" <=> m \in WinningWalk

\* ------------------------------------------------- properties of the turns
Parsed == pc = "parsed"
IsUser(nid) == nid \in DOMAIN raw.node /\ raw.node[nid].role = "user"
IsAssistant(nid) == nid \in DOMAIN raw.node /\ raw.node[nid].role = "assistant"

\* C17: the users of the turns, in order, are the main-path nodes that carry a
\* user message, in main-path order: one Turn each, none for any other node,
\* and the nodes after a node that is neither user nor assistant are walked.
C17_OneTurnPerUser ==
    Parsed =>
        [i \in 1..Len(turns) |-> turns[i].user] = SelectSeq(main_path, IsUser)

\* A main path with a user node, then a node that is neither user nor
\* assistant, then another user node.
C17_Witness ==
    /\ Parsed
    /\ Len(turns) = 2
    /\ \E i \in 1..Len(main_path), j \in 1..Len(main_path), k \in 1..Len(main_path) :
          /\ i < j /\ j < k
          /\ IsUser(main_path[i])
          /\ ~IsUser(main_path[j]) /\ ~IsAssistant(main_path[j])
          /\ IsUser(main_path[k])

\* The assistant children of a node, in the order of its children list.
AssistantChildren(u) == SelectSeq(raw.node[u].children, IsAssistant)

\* The main-path entry after u, none when u is the last.
NextAfter(u) ==
    LET i == CHOOSE j \in 1..Len(main_path) : main_path[j] = u
    IN IF i = Len(main_path) THEN NoId ELSE main_path[i + 1]

\* C18: the assistant of a Turn is the main-path node after the user node
\* when that is an assistant child of the user node, and absent otherwise;
\* the alternates are the other assistant children in sibling order; chosen
\* and alternates together are the assistant children, the chosen not among
\* the alternates; without assistant children there is neither.
C18_ChosenAndAlternates ==
    Parsed =>
        \A i \in 1..Len(turns) :
            LET t == turns[i]
                u == t.user
                nxt == NextAfter(u)
                cands == AssistantChildren(u)
                IsAlternate(c) == c # t.assistant
            IN /\ t.assistant = IF nxt # NoId /\ IsAssistant(nxt) /\ nxt \in SeqToSet(raw.node[u].children)
                                THEN nxt ELSE NoId
               /\ t.alternates = SelectSeq(cands, IsAlternate)
               /\ t.assistant \notin SeqToSet(t.alternates)
               /\ SeqToSet(t.alternates) \cup ({t.assistant} \ {NoId}) = SeqToSet(cands)
               /\ Len(t.alternates) + (IF t.assistant = NoId THEN 0 ELSE 1) = Len(cands)
               /\ cands = <<>> => (t.assistant = NoId /\ t.alternates = <<>>)

\* A user node with two assistant children and a third child that is no
\* assistant: one reply chosen, the other an alternate.
C18_Witness ==
    /\ Parsed
    /\ \E i \in 1..Len(turns) :
          /\ turns[i].assistant # NoId
          /\ Len(turns[i].alternates) = 1
          /\ Len(raw.node[turns[i].user].children) = 3

\* C20: a timestamp that is not numeric never makes normalization fail:
\* normalize_conversation returns for every conversation of the file, and no
\* message create_time and no conversation-level create_time or update_time
\* of a normalized conversation is anything but a number or absent.
C20_MalformedTimeAbsent ==
    /\ pc # "raised"
    /\ \A i \in 1..Len(processed) :
          /\ processed[i].conversation.create_time # BadTime
          /\ processed[i].conversation.update_time # BadTime
    /\ \A x \in DOMAIN norm.nodes : norm.nodes[x].ct # BadTime

\* ------------------------------------------------ properties of the stages
\* C21: a conversation whose mapping is absent or empty normalizes to no
\* nodes and an empty root id; apply_mark_ids gives the empty processed tree
\* whenever the root source id is empty or names no node; neither raises.
C21_EmptyMappingEmptyTree ==
    /\ (pc = "raised" => raw.keys # <<>>)
    /\ (pc \in {"labelled", "done"} /\ processed # <<>> /\ raw.keys = <<>>) =>
          /\ norm.nodes = <<>>
          /\ norm.root_source_node_id = NoId
    /\ (pc \in {"labelled", "done"} /\ processed # <<>>
            /\ (norm.root_source_node_id = NoId
                  \/ norm.root_source_node_id \notin DOMAIN norm.nodes)) =>
          /\ tree = EmptyTree
          /\ processed[Len(processed)].tree = EmptyTree

C23_NormalizedUntouched ==
    Derived =>
        /\ norm.keys = Normalized0.keys
        /\ DOMAIN norm.nodes = DOMAIN Normalized0.nodes
        /\ \A x \in DOMAIN norm.nodes :
              /\ norm.nodes[x].parent = Normalized0.nodes[x].parent
              /\ norm.nodes[x].children = Normalized0.nodes[x].children

\* ------------------------------------------------- properties of the content
Extracted == pc = "extracted"

\* The fragments with a newline between neighbours, from the last fragment.
RECURSIVE Joined(_)
Joined(parts) ==
    IF parts = <<>> THEN <<>>
    ELSE IF Len(parts) = 1 THEN parts[1]
    ELSE Joined(SubSeq(parts, 1, Len(parts) - 1)) \o <<"\n">> \o parts[Len(parts)]

\* t is s without its leading and trailing whitespace.
IsTrimOf(t, s) ==
    \E i \in 1..(Len(s) + 1) :
        /\ \A k \in 1..(i - 1) : IsSpace(s[k])
        /\ \A k \in (i + Len(t))..Len(s) : IsSpace(s[k])
        /\ i + Len(t) - 1 <= Len(s)
        /\ t = SubSeq(s, i, i + Len(t) - 1)
        /\ t # <<>> => (~IsSpace(t[1]) /\ ~IsSpace(t[Len(t)]))

\* What is returned for a missing payload, a text and a missing kind.
TextAndMissing ==
    /\ content.none => text = <<"[", "no content", "]">>
    /\ (~content.none /\ content.content_type = <<"text">>) =>
          /\ IsTrimOf(text, Joined(content.parts))
          /\ content.parts = <<>> => text = <<>>
    /\ (~content.none /\ content.content_type = None) =>
          text = <<"[", "unknown_content", "]">>

RawOrphans == {x \in DOMAIN raw.node : raw.node[x].parent = NoId}

\* C26: the root found in a non-empty mapping is a key of the mapping: the
\* key "root" whenever the mapping has it, otherwise a node without parent
\* when there is one, otherwise some node.
C26_RootIsAKey ==
    (pc # "raw" /\ raw.keys # <<>>) =>
        /\ norm.root_source_node_id \in DOMAIN raw.node
        /\ RootKey \in DOMAIN raw.node => norm.root_source_node_id = RootKey
        /\ (RootKey \notin DOMAIN raw.node /\ RawOrphans # {}) =>
              norm.root_source_node_id \in RawOrphans

\* A mapping whose "root" node has a parent while another node has none.
C26_Witness ==
    /\ pc = "normalized"
    /\ RootKey \in DOMAIN raw.node
    /\ raw.node[RootKey].parent # NoId
    /\ RawOrphans # {}
    /\ norm.root_source_node_id = RootKey

\* A mapping in which every node has a parent and none is keyed "root".
C26_WitnessFallback ==
    /\ pc = "normalized"
    /\ RootKey \notin DOMAIN raw.node
    /\ RawOrphans = {}
    /\ Cardinality(DOMAIN raw.node) > 1

\* ------------------------------------------ properties of mark_main_path
Unflagged(node) == [node EXCEPT !.is_main_path = "unset"]

\* C27: mark_main_path changes the is_main_path flags and nothing else: the
\* node keys, root_node_id and every node's parent, children, message, source
\* id and N, T, B, A labels stay, and an empty tree or a tree whose
\* root_node_id names no node stays as it is.
C27_OnlyFlagsChange ==
    [][pc = "derived" =>
          /\ tree'.root_node_id = tree.root_node_id
          /\ DOMAIN tree'.nodes = DOMAIN tree.nodes
          /\ \A m \in DOMAIN tree.nodes : Unflagged(tree'.nodes[m]) = Unflagged(tree.nodes[m])
          /\ (tree.nodes = <<>> \/ tree.root_node_id \notin DOMAIN tree.nodes) => tree' = tree]_vars

\* A marked tree with a node on the path that has two children, one of them
\* off the path.
C27_Witness ==
    /\ Marked
    /\ Root \in Marks
    /\ \E m \in Flagged : \E c \in Kids(m) :
          /\ Len(P[m].children) = 2
          /\ P[c].is_main_path = "false"

\* A tree whose root_node_id names no node, handed to mark_main_path.
C27_WitnessLost ==
    /\ Marked
    /\ Marks # {}
    /\ Root \notin Marks

\* ------------------------------------------------ properties of the N labels
\* C28: every node of a processed tree has a real N label, in its derived
\* bundle and in its mark id, and the N labels of a tree of n nodes are
\* exactly 1..n, each carried by one node.
C28_NLabelsComplete ==
    Derived =>
        /\ \A m \in Marks : P[m].N # NoLabel /\ m[1] # 0 /\ m[1] = P[m].N
        /\ {P[m].N : m \in Marks} = 1..Cardinality(Marks)
        /\ \A m1 \in Marks, m2 \in Marks : P[m1].N = P[m2].N => m1 = m2

\* ------------------------------------------ properties of the two selectors
\* The source ids of the nodes mark_main_path walks, from the root down.
FlaggedWalkSources ==
    LET walk == main_walk(P, Root, Cardinality(Marks) + 2)
    IN [i \in 1..Len(walk) |-> Src(walk[i])]

\* C29: on the same tree compute_main_path, which the turns are built along,
\* and mark_main_path, which flags the processed tree, select the same
\* sequence of nodes.
C29_SelectorsAgree ==
    (Marked /\ Marks # {}) => compute_main_path(raw) = FlaggedWalkSources

\* ------------------------------------------------ properties of the output
\* C30: convert_file returns one processed tree for every conversation of the
\* input list, and no two conversations of the batch get the same PC label.
C30_OneTreePerConversation ==
    /\ pc # "raised"
    /\ pc = "done" =>
          /\ Len(processed) = Len(raw_convos)
          /\ \A j \in 1..Len(raw_convos) :
                Cardinality({i \in 1..Len(processed) :
                    processed[i].conversation = convo_fields(raw_convos[j])}) = 1
    /\ \A i \in 1..Len(processed), j \in 1..Len(processed) :
          processed[i].PC = processed[j].PC => i = j
    /\ \A i \in 1..Len(ordered_with_labels), j \in 1..Len(ordered_with_labels) :
          (/\ ordered_with_labels[i].P = ordered_with_labels[j].P
           /\ ordered_with_labels[i].C = ordered_with_labels[j].C) => i = j
====
